---- MODULE Spec2Model ----
(***************************************************************************)
(* Chip-model descriptors of picotool (model/model.h): the model_info      *)
(* class hierarchy, family resolution, memory classification, the address  *)
(* range views and the unreadable-ROM overlap test.                        *)
(*                                                                         *)
(* A uint32_t is the pair <<hi, lo>> of its two 16-bit halves, so that the  *)
(* real memory map and 32-bit wrap-around are kept exactly.                *)
(***************************************************************************)
EXTENDS Integers, Sequences, FiniteSets, TLC

VARIABLES heap, cur, allocs, initial, ident, last

vars == <<heap, cur, allocs, initial, ident, last>>

----------------------------------------------------------------------------
(* Bounds of the exploration *)

\* addresses are probed up to Delta bytes on either side of each boundary
Delta == 1
\* largest command set handed to supports_picoboot_cmds
MaxCmds == 2
\* number of models model_from_family may create in one run
MaxAllocs == 2

----------------------------------------------------------------------------
(* uint32_t arithmetic on <<hi, lo>> pairs *)

U32(hi, lo) == <<hi, lo>>

Lt32(a, b) == a[1] < b[1] \/ (a[1] = b[1] /\ a[2] < b[2])
Le32(a, b) == a[1] < b[1] \/ (a[1] = b[1] /\ a[2] <= b[2])
Gt32(a, b) == Lt32(b, a)
Ge32(a, b) == Le32(b, a)

\* a + b modulo 2^32
Add32(a, b) ==
    LET lo == a[2] + b[2]
        hi == a[1] + b[1] + (lo \div 65536)
    IN  <<hi % 65536, lo % 65536>>

\* a - b modulo 2^32
Sub32(a, b) ==
    LET lo == a[2] - b[2]
        borrow == IF lo < 0 THEN 1 ELSE 0
        hi == a[1] - b[1] - borrow
    IN  <<hi % 65536, lo % 65536>>

\* TRUE when a + b does not fit in 32 bits
Carry32(a, b) == a[1] + b[1] + ((a[2] + b[2]) \div 65536) >= 65536

Min32(a, b) == IF Lt32(b, a) THEN b ELSE a
Max32(a, b) == IF Lt32(a, b) THEN b ELSE a

Zero32 == U32(0, 0)
Max32Value == U32(65535, 65535)

----------------------------------------------------------------------------
(* addresses.h *)

ROM_START == U32(0, 0)
ROM_END_RP2040 == U32(0, 16384)
ROM_END_RP2350 == U32(0, 32768)
FLASH_START == U32(4096, 0)
FLASH_END_RP2040 == U32(4352, 0)
FLASH_END_RP2350 == U32(4608, 0)
XIP_SRAM_START_RP2040 == U32(5376, 0)
XIP_SRAM_END_RP2040 == U32(5376, 16384)
XIP_SRAM_START_RP2350 == U32(5119, 49152)
XIP_SRAM_END_RP2350 == U32(5120, 0)
SRAM_START == U32(8192, 0)
SRAM_END_RP2040 == U32(8196, 8192)
SRAM_END_RP2350 == U32(8200, 8192)
MAIN_RAM_BANKED_START == U32(8448, 0)
MAIN_RAM_BANKED_END == U32(8452, 0)

(* boot/uf2.h *)

RP2040_FAMILY_ID == U32(58507, 65366)
RP2350_ARM_S_FAMILY_ID == U32(58507, 65369)
RP2350_RISCV_FAMILY_ID == U32(58507, 65370)
RP2350_ARM_NS_FAMILY_ID == U32(58507, 65371)

(* boot/picoboot.h, enum picoboot_cmd_id *)

PC_EXCLUSIVE_ACCESS == 1
PC_REBOOT == 2
PC_FLASH_ERASE == 3
PC_READ == 132
PC_WRITE == 5
PC_EXIT_XIP == 6
PC_ENTER_CMD_XIP == 7
PC_EXEC == 8
PC_VECTORIZE_FLASH == 9
PC_REBOOT2 == 10
PC_GET_INFO == 139
PC_OTP_READ == 140
PC_OTP_WRITE == 13
PC_EXEC2 == 14

picoboot_cmd_id ==
    {PC_EXCLUSIVE_ACCESS, PC_REBOOT, PC_FLASH_ERASE, PC_READ, PC_WRITE,
     PC_EXIT_XIP, PC_ENTER_CMD_XIP, PC_EXEC, PC_VECTORIZE_FLASH, PC_REBOOT2,
     PC_GET_INFO, PC_OTP_READ, PC_OTP_WRITE, PC_EXEC2}

----------------------------------------------------------------------------
(* enums of model.h *)

memory_type == {"rom", "flash", "sram", "sram_unstriped", "xip_sram", "invalid"}
chip_t == {"rp2040", "rp2350", "unknown"}
chip_revision_t ==
    {"rp2040_b0", "rp2040_b1", "rp2040_b2", "rp2350_a2", "rp2350_a3",
     "rp2350_a4", "unknown_revision"}

\* a member no constructor initialises holds an indeterminate value
Indeterminate == "indeterminate"

\* what a read of an indeterminate chip_revision_t may yield
IndeterminateRevisions == chip_revision_t \cup {"out_of_range"}

\* what a read of an indeterminate uint32_t may yield (a sample of the 2^32 values)
IndeterminateFamilies ==
    {Zero32, RP2040_FAMILY_ID, RP2350_ARM_S_FAMILY_ID, RP2350_ARM_NS_FAMILY_ID, Max32Value}

\* errors.h: fail(code, ...) raises; the outcome of a call is a value or the code
Ok(v) == [ok |-> TRUE, val |-> v]
Fail(code) == [ok |-> FALSE, val |-> code]
ERROR_NOT_POSSIBLE == "ERROR_NOT_POSSIBLE"

chip_name(chip) ==
    IF chip = "rp2040" THEN "RP2040"
    ELSE IF chip = "rp2350" THEN "RP2350"
    ELSE "RP-series"

----------------------------------------------------------------------------
(* class model_info and its subclasses.  An object is a record of the data *)
(* members plus class, the dynamic type that virtual dispatch goes by.     *)

\* model_info::model_info: _chip_revision and _family_id get no initialiser
model_info(class, chip, name, rom_end, picoboot_cmds) ==
    [class |-> class, chip |-> chip, name |-> name, rom_end |-> rom_end,
     picoboot_cmds |-> picoboot_cmds,
     chip_revision |-> Indeterminate, family_id |-> Indeterminate]

set_chip_revision(m, revision) == [m EXCEPT !.chip_revision = revision]
set_family_id(m, id) == [m EXCEPT !.family_id = id]

\* the values a call of chip_revision() may return
chip_revision(m) ==
    IF m.chip_revision = Indeterminate THEN IndeterminateRevisions
    ELSE {m.chip_revision}

\* the values a call of family_id() may return
family_id(m) ==
    IF m.family_id = Indeterminate THEN IndeterminateFamilies
    ELSE {m.family_id}

model_unknown == model_info("model_unknown", "unknown", chip_name("unknown"), U32(0, 256), {})

model_rp(class, chip, name, rom_end, picoboot_cmds) ==
    model_info(class, chip, name, rom_end, picoboot_cmds)

model_rp_generic ==
    model_rp("model_rp_generic", "unknown", chip_name("unknown"), U32(0, 256), {})

model_rp2040 ==
    set_family_id(
        model_rp("model_rp2040", "rp2040", chip_name("rp2040"), ROM_END_RP2040,
                 {PC_EXCLUSIVE_ACCESS, PC_REBOOT, PC_FLASH_ERASE, PC_READ, PC_WRITE,
                  PC_EXIT_XIP, PC_ENTER_CMD_XIP, PC_EXEC, PC_VECTORIZE_FLASH}),
        RP2040_FAMILY_ID)

model_rp2350_as(class, rom_end) ==
    model_rp(class, "rp2350",
             IF Gt32(rom_end, U32(0, 32768)) THEN "RP2350(64k)" ELSE "RP2350",
             rom_end,
             {PC_EXCLUSIVE_ACCESS, PC_REBOOT, PC_FLASH_ERASE, PC_READ, PC_WRITE,
              PC_EXIT_XIP, PC_ENTER_CMD_XIP, PC_EXEC, PC_REBOOT2, PC_GET_INFO,
              PC_OTP_READ, PC_OTP_WRITE})

\* explicit model_rp2350(uint32_t rom_end)
model_rp2350_rom_end(rom_end) == model_rp2350_as("model_rp2350", rom_end)

\* model_rp2350() : model_rp2350(ROM_END_RP2350)
model_rp2350 == model_rp2350_rom_end(ROM_END_RP2350)

model_rp2350_arm_s ==
    set_family_id(model_rp2350_as("model_rp2350_arm_s", ROM_END_RP2350), RP2350_ARM_S_FAMILY_ID)
model_rp2350_arm_ns ==
    set_family_id(model_rp2350_as("model_rp2350_arm_ns", ROM_END_RP2350), RP2350_ARM_NS_FAMILY_ID)
model_rp2350_riscv ==
    set_family_id(model_rp2350_as("model_rp2350_riscv", ROM_END_RP2350), RP2350_RISCV_FAMILY_ID)

\* position of a class in the hierarchy
IsRp2350(m) ==
    m.class \in {"model_rp2350", "model_rp2350_arm_s", "model_rp2350_arm_ns", "model_rp2350_riscv"}
IsRp2040(m) == m.class = "model_rp2040"
IsGeneric(m) == m.class = "model_rp_generic"
IsModelRp(m) == IsRp2350(m) \/ IsRp2040(m) \/ IsGeneric(m)

chip(m) == m.chip
name(m) == m.name
rom_start(m) == ROM_START
rom_end(m) == m.rom_end

\* virtual getters: the base fails, model_rp and its subclasses override
rom_table_version(m) ==
    IF IsRp2040(m) THEN Ok(1)
    ELSE IF IsRp2350(m) THEN Ok(2)
    ELSE Fail(ERROR_NOT_POSSIBLE)

flash_start(m) == IF IsModelRp(m) THEN Ok(FLASH_START) ELSE Fail(ERROR_NOT_POSSIBLE)

flash_end(m) ==
    IF IsGeneric(m) THEN Ok(Max32(FLASH_END_RP2040, FLASH_END_RP2350))
    ELSE IF IsRp2040(m) THEN Ok(FLASH_END_RP2040)
    ELSE IF IsRp2350(m) THEN Ok(FLASH_END_RP2350)
    ELSE Fail(ERROR_NOT_POSSIBLE)

sram_start(m) == IF IsModelRp(m) THEN Ok(SRAM_START) ELSE Fail(ERROR_NOT_POSSIBLE)

sram_end(m) ==
    IF IsGeneric(m) THEN Ok(Max32(SRAM_END_RP2040, SRAM_END_RP2350))
    ELSE IF IsRp2040(m) THEN Ok(SRAM_END_RP2040)
    ELSE IF IsRp2350(m) THEN Ok(SRAM_END_RP2350)
    ELSE Fail(ERROR_NOT_POSSIBLE)

xip_sram_start(m) ==
    IF IsGeneric(m) THEN Ok(Min32(XIP_SRAM_START_RP2040, XIP_SRAM_START_RP2350))
    ELSE IF IsRp2040(m) THEN Ok(XIP_SRAM_START_RP2040)
    ELSE IF IsRp2350(m) THEN Ok(XIP_SRAM_START_RP2350)
    ELSE Fail(ERROR_NOT_POSSIBLE)

xip_sram_end(m) ==
    IF IsGeneric(m) THEN Ok(Max32(XIP_SRAM_END_RP2040, XIP_SRAM_END_RP2350))
    ELSE IF IsRp2040(m) THEN Ok(XIP_SRAM_END_RP2040)
    ELSE IF IsRp2350(m) THEN Ok(XIP_SRAM_END_RP2350)
    ELSE Fail(ERROR_NOT_POSSIBLE)

unreadable_rom_start(m) ==
    IF IsRp2350(m) THEN Sub32(rom_end(m), U32(0, 512)) ELSE Max32Value

unreadable_rom_end(m) ==
    IF IsRp2350(m) THEN rom_end(m) ELSE Max32Value

\* revision is the value the call of chip_revision() returned
unreadable_rom_data(m, revision) ==
    IF IsRp2350(m) THEN
        CASE revision = "rp2350_a2" -> "rp2350_a2_rom_end"
          [] revision = "rp2350_a3" -> "rp2350_a3_rom_end"
          [] revision = "rp2350_a4" -> "rp2350_a4_rom_end"
          [] OTHER -> "nullptr"
    ELSE "nullptr"

----------------------------------------------------------------------------
(* memory classification *)

\* model_info::get_memory_type with the end of ROM left out
get_memory_type_model_info_excl(m, addr) ==
    IF Ge32(addr, rom_start(m)) /\ Lt32(addr, rom_end(m)) THEN "rom" ELSE "invalid"

\* model_info::get_memory_type
get_memory_type_model_info(m, addr) ==
    IF Ge32(addr, rom_start(m)) /\ Le32(addr, rom_end(m)) THEN "rom" ELSE "invalid"

\* model_rp::get_memory_type with the end of flash left out
get_memory_type_model_rp_excl(m, addr) ==
    IF Ge32(addr, flash_start(m).val) /\ Lt32(addr, flash_end(m).val) THEN "flash"
    ELSE IF Ge32(addr, sram_start(m).val) /\ Le32(addr, sram_end(m).val) THEN "sram"
    ELSE IF Ge32(addr, xip_sram_start(m).val) /\ Le32(addr, xip_sram_end(m).val) THEN "xip_sram"
    ELSE get_memory_type_model_info(m, addr)

\* model_rp::get_memory_type
get_memory_type_model_rp(m, addr) ==
    IF Ge32(addr, flash_start(m).val) /\ Le32(addr, flash_end(m).val) THEN "flash"
    ELSE IF Ge32(addr, sram_start(m).val) /\ Le32(addr, sram_end(m).val) THEN "sram"
    ELSE IF Ge32(addr, xip_sram_start(m).val) /\ Le32(addr, xip_sram_end(m).val) THEN "xip_sram"
    ELSE get_memory_type_model_info(m, addr)

\* model_rp2040::get_memory_type
get_memory_type_model_rp2040(m, addr) ==
    IF Ge32(addr, MAIN_RAM_BANKED_START) /\ Le32(addr, MAIN_RAM_BANKED_END) THEN "sram_unstriped"
    ELSE get_memory_type_model_rp(m, addr)

\* get_memory_type(addr, model): the virtual call
get_memory_type(addr, m) ==
    IF IsRp2040(m) THEN get_memory_type_model_rp2040(m, addr)
    ELSE IF IsModelRp(m) THEN get_memory_type_model_rp(m, addr)
    ELSE get_memory_type_model_info(m, addr)

----------------------------------------------------------------------------
(* picoboot command support *)

supports_picoboot_cmd(m, cmd) == cmd \in m.picoboot_cmds

\* the two-argument overload writing the name whatever the answer
supports_picoboot_cmd_name_always(m, cmd, failed_device_name) ==
    <<supports_picoboot_cmd(m, cmd), name(m)>>

\* the two-argument overload: <<result, failed_device_name afterwards>>
supports_picoboot_cmd_name(m, cmd, failed_device_name) ==
    IF ~supports_picoboot_cmd(m, cmd) THEN <<FALSE, name(m)>>
    ELSE <<TRUE, failed_device_name>>

\* a std::set is walked in ascending order
SetMin(S) == CHOOSE x \in S : \A y \in S : x <= y

RECURSIVE supports_picoboot_cmds(_, _, _)
supports_picoboot_cmds(m, cmds, failed_device_name) ==
    IF cmds = {} THEN <<TRUE, failed_device_name>>
    ELSE LET cmd == SetMin(cmds)
             r == supports_picoboot_cmd_name(m, cmd, failed_device_name)
         IN  IF ~r[1] THEN <<FALSE, r[2]>>
             ELSE supports_picoboot_cmds(m, cmds \ {cmd}, r[2])

----------------------------------------------------------------------------
(* family resolution, address range views, unreadable ROM *)

\* ids of the objects behind models::unknown and models::largest
UnknownId == 0
LargestId == 1
NullId == -1

\* models::unknown and models::largest as created at start-up
models == (UnknownId :> model_unknown) @@ (LargestId :> model_rp_generic)

\* model_from_family with the upper end of the rp2350 range left out
model_from_family_excl(id) ==
    IF id = RP2040_FAMILY_ID
    THEN [is_new |-> TRUE, obj |-> model_rp2040]
    ELSE IF Ge32(id, RP2350_ARM_S_FAMILY_ID) /\ Lt32(id, RP2350_ARM_NS_FAMILY_ID)
    THEN [is_new |-> TRUE, obj |-> model_rp2350]
    ELSE [is_new |-> FALSE, obj |-> UnknownId]

\* make_shared gives a new object, models::unknown the shared one
model_from_family(id) ==
    IF id = RP2040_FAMILY_ID
    THEN [is_new |-> TRUE, obj |-> model_rp2040]
    ELSE IF Ge32(id, RP2350_ARM_S_FAMILY_ID) /\ Le32(id, RP2350_ARM_NS_FAMILY_ID)
    THEN [is_new |-> TRUE, obj |-> model_rp2350]
    ELSE [is_new |-> FALSE, obj |-> UnknownId]

address_range(from, to, type) == [from |-> from, to |-> to, type |-> type]

AllOk(rs) == \A i \in DOMAIN rs : rs[i].ok

\* address_ranges_flash adding the banked range for every known chip
address_ranges_flash_banked(m) ==
    LET fs == flash_start(m) fe == flash_end(m)
        ss == sram_start(m)  se == sram_end(m)
        xs == xip_sram_start(m) xe == xip_sram_end(m)
    IN  IF ~AllOk(<<fs, fe, ss, se, xs, xe>>) THEN Fail(ERROR_NOT_POSSIBLE)
        ELSE LET ranges == << address_range(fs.val, fe.val, "CONTENTS"),
                              address_range(ss.val, se.val, "NO_CONTENTS"),
                              address_range(xs.val, xe.val, "NO_CONTENTS") >>
             IN  IF chip(m) # "unknown"
                 THEN Ok(Append(ranges, address_range(MAIN_RAM_BANKED_START,
                                                      MAIN_RAM_BANKED_END, "NO_CONTENTS")))
                 ELSE Ok(ranges)

address_ranges_flash(m) ==
    LET fs == flash_start(m) fe == flash_end(m)
        ss == sram_start(m)  se == sram_end(m)
        xs == xip_sram_start(m) xe == xip_sram_end(m)
    IN  IF ~AllOk(<<fs, fe, ss, se, xs, xe>>) THEN Fail(ERROR_NOT_POSSIBLE)
        ELSE LET ranges == << address_range(fs.val, fe.val, "CONTENTS"),
                              address_range(ss.val, se.val, "NO_CONTENTS"),
                              address_range(xs.val, xe.val, "NO_CONTENTS") >>
             IN  IF chip(m) = "rp2040"
                 THEN Ok(Append(ranges, address_range(MAIN_RAM_BANKED_START,
                                                      MAIN_RAM_BANKED_END, "NO_CONTENTS")))
                 ELSE Ok(ranges)

address_ranges_ram(m) ==
    LET ss == sram_start(m)  se == sram_end(m)
        xs == xip_sram_start(m) xe == xip_sram_end(m)
    IN  IF ~AllOk(<<ss, se, xs, xe>>) THEN Fail(ERROR_NOT_POSSIBLE)
        ELSE Ok(<< address_range(ss.val, se.val, "CONTENTS"),
                   address_range(xs.val, xe.val, "CONTENTS"),
                   address_range(rom_start(m), rom_end(m), "IGNORE") >>)

\* addr + size is computed in uint32_t
contains_unreadable_rom(addr, size, m) ==
    \/ (Ge32(addr, unreadable_rom_start(m)) /\ Lt32(addr, unreadable_rom_end(m)))
    \/ (Gt32(Add32(addr, size), unreadable_rom_start(m))
        /\ Le32(Add32(addr, size), unreadable_rom_end(m)))
    \/ (Lt32(addr, unreadable_rom_start(m))
        /\ Gt32(Add32(addr, size), unreadable_rom_end(m)))

----------------------------------------------------------------------------
(* Inputs *)

Near(b) ==
    {Add32(b, U32(0, d)) : d \in 0..Delta} \cup {Sub32(b, U32(0, d)) : d \in 0..Delta}

\* rom_end values a model_rp2350 is constructed with
RomEndInputs ==
    {U32(0, 256), U32(0, 511), U32(0, 512), ROM_END_RP2350, U32(0, 32769), U32(1, 0),
     Max32Value}

Boundaries ==
    {ROM_START, ROM_END_RP2040, FLASH_START, FLASH_END_RP2040, FLASH_END_RP2350,
     XIP_SRAM_START_RP2040, XIP_SRAM_END_RP2040, XIP_SRAM_START_RP2350,
     XIP_SRAM_END_RP2350, SRAM_START, SRAM_END_RP2040, SRAM_END_RP2350,
     MAIN_RAM_BANKED_START, MAIN_RAM_BANKED_END} \cup RomEndInputs

ProbeAddrs == UNION {Near(b) : b \in Boundaries}

FamilyInputs ==
    {Zero32, Max32Value} \cup Near(RP2040_FAMILY_ID) \cup Near(RP2350_ARM_S_FAMILY_ID)
    \cup Near(RP2350_ARM_NS_FAMILY_ID)

SetFamilyInputs == {RP2040_FAMILY_ID, RP2350_RISCV_FAMILY_ID, Zero32}

SizeInputs ==
    {U32(0, 0), U32(0, 1), U32(0, 50), U32(0, 511), U32(0, 512), U32(0, 513),
     U32(65535, 65024), Max32Value}

OverlapAddrs(m) ==
    Near(unreadable_rom_start(m)) \cup Near(unreadable_rom_end(m))
    \cup {Sub32(unreadable_rom_end(m), U32(0, 300)),
          Sub32(unreadable_rom_end(m), U32(0, 600)), Zero32}

CmdSets == {S \in SUBSET picoboot_cmd_id : Cardinality(S) <= MaxCmds}

NameInputs == {"other device"}

\* models a caller may hold besides the two shared ones
ConstructedModels ==
    {model_rp2040, model_rp2350_arm_s, model_rp2350_arm_ns, model_rp2350_riscv}
    \cup {model_rp2350_rom_end(r) : r \in RomEndInputs}

----------------------------------------------------------------------------
(* State                                                                   *)
(*  heap     the model_info objects alive, by object id                    *)
(*  cur      the model_t the caller holds (NullId: none yet)               *)
(*  allocs   number of make_shared calls so far                            *)
(*  initial  the heap as it was at start-up                                *)
(*  ident    the identification in progress: the family id it resolved and *)
(*           which setters it has called                                   *)
(*  last     the last call made, its arguments and its outcome             *)

NoCall == [op |-> "none", arg |-> <<>>, out |-> <<>>]
NoIdent == [f |-> "none", rev_set |-> FALSE, fam_set |-> "none"]

Call(op, arg, out) == [op |-> op, arg |-> arg, out |-> out]

M == heap[cur]

Init ==
    /\ heap = models
    /\ cur = NullId
    /\ allocs = 0
    /\ initial = heap
    /\ ident = NoIdent
    /\ last = NoCall

\* model_t model = model_from_family(f): the handle held before is dropped
ModelFromFamily(f) ==
    LET r == model_from_family(f)
        id == LargestId + 1 + allocs
    IN  /\ r.is_new => allocs < MaxAllocs
        /\ cur' = IF r.is_new THEN id ELSE r.obj
        /\ heap' = IF r.is_new
                   THEN [i \in {UnknownId, LargestId, id} |-> IF i = id THEN r.obj ELSE heap[i]]
                   ELSE [i \in {UnknownId, LargestId} |-> heap[i]]
        /\ allocs' = IF r.is_new THEN allocs + 1 ELSE allocs
        /\ ident' = [f |-> f, rev_set |-> FALSE, fam_set |-> "none"]
        /\ last' = Call("model_from_family", f, cur')
        /\ UNCHANGED initial

\* model->set_chip_revision(revision), once per identification
SetChipRevision(revision) ==
    /\ cur # NullId
    /\ ~ident.rev_set
    /\ heap' = [heap EXCEPT ![cur] = set_chip_revision(@, revision)]
    /\ ident' = [ident EXCEPT !.rev_set = TRUE]
    /\ last' = Call("set_chip_revision", revision, <<>>)
    /\ UNCHANGED <<cur, allocs, initial>>

\* model->set_family_id(id), once per identification
SetFamilyId(id) ==
    /\ cur # NullId
    /\ ident.fam_set = "none"
    /\ heap' = [heap EXCEPT ![cur] = set_family_id(@, id)]
    /\ ident' = [ident EXCEPT !.fam_set = id]
    /\ last' = Call("set_family_id", id, <<>>)
    /\ UNCHANGED <<cur, allocs, initial>>

\* model->unreadable_rom_data()
UnreadableRomData ==
    /\ cur # NullId
    /\ \E revision \in chip_revision(M) :
          last' = Call("unreadable_rom_data", <<>>, unreadable_rom_data(M, revision))
    /\ UNCHANGED <<heap, cur, allocs, initial, ident>>

\* model->family_id()
FamilyId ==
    /\ cur # NullId
    /\ \E id \in family_id(M) : last' = Call("family_id", <<>>, id)
    /\ UNCHANGED <<heap, cur, allocs, initial, ident>>

Next ==
    \/ \E f \in FamilyInputs : ModelFromFamily(f)
    \/ \E revision \in chip_revision_t : SetChipRevision(revision)
    \/ \E id \in SetFamilyInputs : SetFamilyId(id)
    \/ UnreadableRomData
    \/ FamilyId

Spec == Init /\ [][Next]_vars

----------------------------------------------------------------------------
(* The queries, on a model of any class *)

InitQuery ==
    /\ \/ /\ cur \in {UnknownId, LargestId}
          /\ heap = models
          /\ allocs = 0
       \/ /\ cur = LargestId + 1
          /\ \E m \in ConstructedModels : heap = models @@ (cur :> m)
          /\ allocs = 1
    /\ initial = heap
    /\ ident = NoIdent
    /\ last = NoCall

Query(op, arg, out) ==
    /\ last' = Call(op, arg, out)
    /\ UNCHANGED <<heap, cur, allocs, initial, ident>>

GetMemoryType(addr) == Query("get_memory_type", addr, get_memory_type(addr, M))

SupportsPicobootCmds(cmds, failed_device_name) ==
    Query("supports_picoboot_cmds", <<cmds, failed_device_name>>,
          supports_picoboot_cmds(M, cmds, failed_device_name))

AddressRangesFlash == Query("address_ranges_flash", <<>>, address_ranges_flash(M))

AddressRangesRam == Query("address_ranges_ram", <<>>, address_ranges_ram(M))

ContainsUnreadableRom(addr, size) ==
    Query("contains_unreadable_rom", <<addr, size>>, contains_unreadable_rom(addr, size, M))

Getters ==
    {"rom_start", "rom_end", "rom_table_version", "flash_start", "flash_end",
     "sram_start", "sram_end", "xip_sram_start", "xip_sram_end",
     "unreadable_rom_start", "unreadable_rom_end"}

Getter(g) ==
    Query(g, <<>>,
          CASE g = "rom_start" -> Ok(rom_start(M))
            [] g = "rom_end" -> Ok(rom_end(M))
            [] g = "rom_table_version" -> rom_table_version(M)
            [] g = "flash_start" -> flash_start(M)
            [] g = "flash_end" -> flash_end(M)
            [] g = "sram_start" -> sram_start(M)
            [] g = "sram_end" -> sram_end(M)
            [] g = "xip_sram_start" -> xip_sram_start(M)
            [] g = "xip_sram_end" -> xip_sram_end(M)
            [] g = "unreadable_rom_start" -> Ok(unreadable_rom_start(M))
            [] g = "unreadable_rom_end" -> Ok(unreadable_rom_end(M)))

NextQuery ==
    \/ \E addr \in ProbeAddrs : GetMemoryType(addr)
    \/ \E cmds \in CmdSets, n \in NameInputs : SupportsPicobootCmds(cmds, n)
    \/ AddressRangesFlash
    \/ AddressRangesRam
    \/ \E addr \in OverlapAddrs(M), size \in SizeInputs : ContainsUnreadableRom(addr, size)
    \/ \E g \in Getters : Getter(g)

SpecQuery == InitQuery /\ [][NextQuery]_vars

----------------------------------------------------------------------------
(* Properties *)

InRange(a, from, to) == Le32(from, a) /\ Le32(a, to)

\* some address lies both in [addr, addr+size) and in [from, to)
Intersects(addr, size, from, to) ==
    /\ size # Zero32
    /\ Lt32(from, to)
    /\ Lt32(addr, to)
    /\ (Carry32(addr, size) \/ Gt32(Add32(addr, size), from))

\* C1: contains_unreadable_rom(addr, size, model) is true exactly when
\* [addr, addr+size) shares an address with
\* [unreadable_rom_start, unreadable_rom_end) of the model.
C1_OverlapExact ==
    last.op = "contains_unreadable_rom" =>
        last.out = Intersects(last.arg[1], last.arg[2],
                              unreadable_rom_start(M), unreadable_rom_end(M))

\* C2: on a hardware variant get_memory_type gives flash, sram and xip_sram
\* exactly on the inclusive ranges of the model, sram_unstriped exactly on the
\* banked range of the older generation, and rom or invalid everywhere else.
C2_MemoryTypeExact ==
    (last.op = "get_memory_type" /\ IsModelRp(M)) =>
        LET a == last.arg
            t == last.out
            inFlash == InRange(a, flash_start(M).val, flash_end(M).val)
            inSram == InRange(a, sram_start(M).val, sram_end(M).val)
            inXip == InRange(a, xip_sram_start(M).val, xip_sram_end(M).val)
            inBanked == InRange(a, MAIN_RAM_BANKED_START, MAIN_RAM_BANKED_END)
        IN  /\ (t = "flash") <=> inFlash
            /\ (t = "sram") <=> inSram
            /\ (t = "xip_sram") <=> inXip
            /\ (t = "sram_unstriped") <=> (chip(M) = "rp2040" /\ inBanked)
            /\ ~(inFlash \/ inSram \/ inXip \/ t = "sram_unstriped") =>
                   t = (IF InRange(a, rom_start(M), rom_end(M)) THEN "rom" ELSE "invalid")

C2_Witness ==
    /\ last.op = "get_memory_type"
    /\ IsRp2040(M)
    /\ last.arg = MAIN_RAM_BANKED_END
    /\ last.out = "sram_unstriped"

Recognised(f) ==
    f = RP2040_FAMILY_ID \/ InRange(f, RP2350_ARM_S_FAMILY_ID, RP2350_ARM_NS_FAMILY_ID)

\* C3: model_from_family(f) gives an rp2040 model for RP2040_FAMILY_ID, an
\* rp2350 model for RP2350_ARM_S_FAMILY_ID..RP2350_ARM_NS_FAMILY_ID, each a
\* new object, and the one shared Unknown object for every other f.
C3_FamilyResolution ==
    last.op = "model_from_family" =>
        LET f == last.arg
            ret == last.out
        IN  /\ ret = cur
            /\ ret \in DOMAIN heap
            /\ f = RP2040_FAMILY_ID => chip(heap[ret]) = "rp2040"
            /\ InRange(f, RP2350_ARM_S_FAMILY_ID, RP2350_ARM_NS_FAMILY_ID) =>
                   chip(heap[ret]) = "rp2350"
            /\ ~Recognised(f) => ret = UnknownId
            /\ Recognised(f) => ret \notin DOMAIN initial

C3_Witness ==
    /\ last.op = "model_from_family"
    /\ last.arg = RP2350_ARM_NS_FAMILY_ID
    /\ chip(heap[last.out]) = "rp2350"
    /\ allocs = MaxAllocs

CommonCmds ==
    {PC_EXCLUSIVE_ACCESS, PC_REBOOT, PC_FLASH_ERASE, PC_READ, PC_WRITE, PC_EXIT_XIP,
     PC_ENTER_CMD_XIP, PC_EXEC}

SupportedBy(m) ==
    IF chip(m) = "rp2040" THEN CommonCmds \cup {PC_VECTORIZE_FLASH}
    ELSE IF chip(m) = "rp2350"
    THEN CommonCmds \cup {PC_REBOOT2, PC_GET_INFO, PC_OTP_READ, PC_OTP_WRITE}
    ELSE {}

\* C4: supports_picoboot_cmds(cmds, failed_device_name) is true exactly when
\* every command of cmds is in the variant's set; on false failed_device_name
\* is the model's name, on true it is left as it was.
C4_SupportsCmds ==
    last.op = "supports_picoboot_cmds" =>
        LET cmds == last.arg[1]
            before == last.arg[2]
            result == last.out[1]
            after == last.out[2]
        IN  /\ result \in BOOLEAN
            /\ result <=> (cmds \subseteq SupportedBy(M))
            /\ ~result => after = name(M)
            /\ result => after = before

C4_Witness ==
    /\ last.op = "supports_picoboot_cmds"
    /\ IsRp2040(M)
    /\ last.arg = <<{PC_READ, PC_OTP_READ}, "other device">>
    /\ last.out = <<FALSE, "RP2040">>

\* C5: address_ranges_flash gives flash CONTENTS, sram NO_CONTENTS, xip_sram
\* NO_CONTENTS and, for the older generation only, the banked range
\* NO_CONTENTS; address_ranges_ram gives sram CONTENTS, xip_sram CONTENTS,
\* rom IGNORE; every range has start <= end and the model is not changed.
C5_AddressRanges ==
    (last.op \in {"address_ranges_flash", "address_ranges_ram"} /\ IsModelRp(M)) =>
        LET flash == address_range(flash_start(M).val, flash_end(M).val, "CONTENTS")
            sram(t) == address_range(sram_start(M).val, sram_end(M).val, t)
            xip(t) == address_range(xip_sram_start(M).val, xip_sram_end(M).val, t)
            banked == address_range(MAIN_RAM_BANKED_START, MAIN_RAM_BANKED_END, "NO_CONTENTS")
            rom == address_range(rom_start(M), rom_end(M), "IGNORE")
            ranges == last.out.val
        IN  /\ last.out.ok
            /\ last.op = "address_ranges_flash" =>
                   /\ ranges = IF IsRp2040(M)
                               THEN <<flash, sram("NO_CONTENTS"), xip("NO_CONTENTS"), banked>>
                               ELSE <<flash, sram("NO_CONTENTS"), xip("NO_CONTENTS")>>
                   /\ Len(ranges) = IF IsRp2040(M) THEN 4 ELSE 3
            /\ last.op = "address_ranges_ram" =>
                   ranges = <<sram("CONTENTS"), xip("CONTENTS"), rom>>
            /\ \A i \in DOMAIN ranges : Le32(ranges[i].from, ranges[i].to)
            /\ heap = initial

C5_Witness ==
    /\ last.op = "address_ranges_flash"
    /\ IsRp2040(M)
    /\ Len(last.out.val) = 4
    /\ last.out.val[4].type = "NO_CONTENTS"

FailingGetters ==
    {"rom_table_version", "flash_start", "flash_end", "sram_start", "sram_end",
     "xip_sram_start", "xip_sram_end"}

\* C6: on the Unknown model the range getters and rom_table_version fail with
\* ERROR_NOT_POSSIBLE and so do both address range views; rom_start, rom_end
\* (0x100) and get_memory_type succeed, get_memory_type giving rom on
\* [rom_start, 0x100] and invalid elsewhere; the model is left unchanged.
C6_UnknownModel ==
    (cur # NullId /\ M.class = "model_unknown") =>
        /\ last.op \in FailingGetters => last.out = Fail(ERROR_NOT_POSSIBLE)
        /\ last.op \in {"address_ranges_flash", "address_ranges_ram"} =>
               last.out = Fail(ERROR_NOT_POSSIBLE)
        /\ last.op = "rom_start" => last.out = Ok(ROM_START)
        /\ last.op = "rom_end" => last.out = Ok(U32(0, 256))
        /\ last.op = "get_memory_type" =>
               last.out = (IF InRange(last.arg, ROM_START, U32(0, 256)) THEN "rom" ELSE "invalid")
        /\ last.op \in FailingGetters \cup {"address_ranges_flash", "address_ranges_ram"} =>
               heap = initial

C6_Witness ==
    /\ cur = UnknownId
    /\ last.op = "flash_start"
    /\ last.out = Fail(ERROR_NOT_POSSIBLE)

\* C7: whatever identifications run, the shared Unknown and Generic objects
\* keep the revision and family id they had at start-up.
C7_SingletonsNeverMutated ==
    /\ heap[UnknownId] = initial[UnknownId]
    /\ heap[LargestId] = initial[LargestId]

\* C8: unreadable_rom_data() gives a table only for a newer-generation model
\* whose revision has been set to rp2350_a2, rp2350_a3 or rp2350_a4, the table
\* of that revision, and null in every other state of the model.
C8_RomDataOnlyWhenSet ==
    last.op = "unreadable_rom_data" =>
        last.out = (IF IsRp2350(M) /\ M.chip_revision \in {"rp2350_a2", "rp2350_a3", "rp2350_a4"}
                    THEN CASE M.chip_revision = "rp2350_a2" -> "rp2350_a2_rom_end"
                           [] M.chip_revision = "rp2350_a3" -> "rp2350_a3_rom_end"
                           [] M.chip_revision = "rp2350_a4" -> "rp2350_a4_rom_end"
                    ELSE "nullptr")

\* C9: for a newer-generation model rom_start <= unreadable_rom_start <=
\* unreadable_rom_end <= rom_end with the two 512 apart, whatever rom_end it
\* was constructed with; every other variant reports 0xffffffff for both.
C9_UnreadableWithinRom ==
    last.op \in {"unreadable_rom_start", "unreadable_rom_end"} =>
        LET from == unreadable_rom_start(M)
            to == unreadable_rom_end(M)
        IN  /\ last.out = Ok(IF last.op = "unreadable_rom_start" THEN from ELSE to)
            /\ IF IsRp2350(M)
               THEN /\ Le32(rom_start(M), from)
                    /\ Le32(from, to)
                    /\ Le32(to, rom_end(M))
                    /\ Sub32(to, from) = U32(0, 512)
                    /\ get_memory_type(from, M) = "rom"
               ELSE from = Max32Value /\ to = Max32Value

\* C10: the model model_from_family(f) returns for a recognised f reports
\* family_id() = f until set_family_id is called, and the value last set after.
C10_FamilyIdOfResolved ==
    (last.op = "family_id" /\ ident.f # "none" /\ Recognised(ident.f)) =>
        last.out = (IF ident.fam_set = "none" THEN ident.f ELSE ident.fam_set)

====
